---- MODULE Spec2Model ----
(***************************************************************************)
(* Request-mapping layer of the Orchestrate client (package client).       *)
(*                                                                         *)
(* Go strings whose structure matters (paths, header values, links) are    *)
(* sequences of one-character strings, so that strings.SplitAfter, slicing *)
(* and concatenation are computed as Go computes them.  One action models  *)
(* one exported method of Client, from its entry to its return; the reply  *)
(* of the HTTP transport is an input of the action.                        *)
(***************************************************************************)
EXTENDS Integers, Sequences, FiniteSets, TLC

VARIABLES path, results, last, fetched

vars == <<path, results, last, fetched>>

\* ------------------------------------------------------------------ bounds

\* Longest list of relation hops given to GetRelations.
MaxHops == 2

\* ------------------------------------------------------- string constants

Empty == <<>>

Slash == <<"/">>

\* const rootUri = "https://api.orchestrate.io/v0/"
rootUri ==
    <<"h","t","t","p","s",":","/","/","a","p","i",".","o","r","c","h","e","s",
      "t","r","a","t","e",".","i","o","/","v","0","/">>

S_refs == <<"/","r","e","f","s","/">>

S_events == <<"/","e","v","e","n","t","s","/">>

S_relations == <<"/","r","e","l","a","t","i","o","n","s","/">>

S_relation == <<"/","r","e","l","a","t","i","o","n","/">>

Q_purge == <<"?","p","u","r","g","e","=","t","r","u","e">>

Q_force == <<"?","f","o","r","c","e","=","t","r","u","e">>

Quote == <<"\"">>

\* ------------------------------------------------------------ Go helpers

\* Index of the first occurrence of the one-character string ch in s, 0 if none.
RECURSIVE IndexFrom(_, _, _)
IndexFrom(s, ch, i) ==
    IF i > Len(s) THEN 0
    ELSE IF s[i] = ch THEN i
    ELSE IndexFrom(s, ch, i + 1)

\* strings.SplitAfter(s, sep) for a one-character sep: the pieces keep their
\* separator, and the remainder after the last separator is always appended,
\* also when it is empty; a string without sep gives the one piece s.
RECURSIVE SplitAfter(_, _)
SplitAfter(s, sep) ==
    LET i == IndexFrom(s, sep, 1) IN
    IF i = 0 THEN <<s>>
    ELSE <<SubSeq(s, 1, i)>> \o SplitAfter(SubSeq(s, i + 1, Len(s)), sep)

\* strings.Join(elems, sep)
RECURSIVE Join(_, _)
Join(elems, sep) ==
    IF Len(elems) = 0 THEN Empty
    ELSE IF Len(elems) = 1 THEN elems[1]
    ELSE elems[1] \o sep \o Join(Tail(elems), sep)

Digit(d) == <<"0","1","2","3","4","5","6","7","8","9">>[d + 1]

RECURSIVE Digits(_)
Digits(n) == IF n < 10 THEN <<Digit(n)>> ELSE Digits(n \div 10) \o <<Digit(n % 10)>>

\* strconv.Itoa / strconv.FormatInt(n, 10)
FormatInt(n) == IF n < 0 THEN <<"-">> \o Digits(0 - n) ELSE Digits(n)

\* url.QueryEscape on the characters the inputs use: letters and digits are
\* kept, '/' becomes %2F.
RECURSIVE QueryEscape(_)
QueryEscape(s) ==
    IF Len(s) = 0 THEN Empty
    ELSE (IF s[1] = "/" THEN <<"%","2","F">> ELSE <<s[1]>>) \o QueryEscape(Tail(s))

\* url.Values.Encode() for single-valued keys given in sorted key order:
\* key=value pairs joined by '&'.
RECURSIVE Encode(_)
Encode(kvs) ==
    IF Len(kvs) = 0 THEN Empty
    ELSE kvs[1][1] \o <<"=">> \o QueryEscape(kvs[1][2])
         \o (IF Len(kvs) = 1 THEN Empty ELSE <<"&">> \o Encode(Tail(kvs)))

K_limit == <<"l","i","m","i","t">>

K_afterKey == <<"a","f","t","e","r","K","e","y">>

K_startKey == <<"s","t","a","r","t","K","e","y">>

K_start == <<"s","t","a","r","t">>

K_end == <<"e","n","d">>

K_timestamp == <<"t","i","m","e","s","t","a","m","p">>

\* ------------------------------------------------------------------ inputs

Collections == {Empty, <<"c">>}

Keys == {Empty, <<"k">>}

Refs == {Empty, <<"r","1">>}

\* type Path: Collection, Key, Ref
Paths == [Collection : Collections, Key : Keys, Ref : Refs]

\* Values handed to the encoding wrappers: json.Encoder.Encode succeeds on
\* "value" and fails on "unencodable" (a channel, a cyclic structure).
Values == {"value", "unencodable"}

IntArgs == {-2, 15}

AfterKeys == {<<"k">>, <<"a","/","b">>}

Kinds == {<<"t">>}

\* Keys of the event and graph calls.
EventKeys == {<<"k">>}

Limits == {15}

EndArgs == {15}

\* The hop lists h1, h1/h2, ... of every length up to MaxHops, and the empty one.
HopLists == {[i \in 1..n |-> <<"h">> \o FormatInt(i)] : n \in 0..MaxHops}

SinkCollection == <<"d">>

SinkKey == <<"j">>

\* Values of the Location / Content-Location response header.
H_canonical == <<"/","v","0","/","c","/","k","/","r","e","f","s","/","r","2">>

H_absolute ==
    <<"h","t","t","p","s",":","/","/","h","/","v","0","/","c","/","k","/",
      "r","e","f","s","/","r","2">>

H_noMarker == <<"/","v","0","/","c","/","k","/","v","e","r","s","/","r","2">>

H_markerLast == <<"/","v","0","/","c","/","k","/","r","e","f","s">>

H_markerSlash == <<"/","v","0","/","c","/","k","/","r","e","f","s","/">>

H_fewer == <<"/","c","/","k","/","r","e","f","s","/","r","2">>

H_more == <<"/","x","/","v","0","/","c","/","k","/","r","e","f","s","/","r","2">>

HeaderValues ==
    {Empty, H_canonical, H_absolute, H_noMarker, H_markerLast, H_markerSlash,
     H_fewer, H_more}

\* Values of the "next" link of a list page; the empty one is the last page.
L_next == <<"/","v","0","/","c","?","a","f","t","e","r","K","e","y","=","k">>

NextLinks == {Empty, L_next}

StatusCodes == {200, 201, 204, 412}

\* http.Response.Status for the codes above.
StatusLine(code) ==
    CASE code = 200 -> "200 OK"
      [] code = 201 -> "201 Created"
      [] code = 204 -> "204 No Content"
      [] code = 412 -> "412 Precondition Failed"
      [] OTHER -> ""

\* A response body: "json" decodes into whatever the reader expects,
\* "garbage" can be read but is no JSON, "readerr" fails while it is read.
Body(kind, next) ==
    [kind |-> kind, next |-> next,
     message |-> IF kind = "json" THEN "msg" ELSE "",
     locator |-> IF kind = "json" THEN "loc" ELSE ""]

NoBody == Body("none", Empty)

BodyKinds == {"json", "garbage", "readerr"}

\* What httpClient.Do gave: an error, or a response.
TransportError ==
    [got |-> "error", code |-> 0, location |-> Empty, contentLocation |-> Empty,
     body |-> NoBody]

NoExchange ==
    [got |-> "none", code |-> 0, location |-> Empty, contentLocation |-> Empty,
     body |-> NoBody]

Response(code, loc, cloc, body) ==
    [got |-> "response", code |-> code, location |-> loc,
     contentLocation |-> cloc, body |-> body]

\* Replies to the operations that read no response header.
PlainReplies ==
    {TransportError}
    \cup {Response(c, Empty, Empty, Body(b, Empty)) :
             c \in StatusCodes, b \in BodyKinds}

\* Replies to a value read: the service sets Content-Location on a 200.
GetReplies ==
    PlainReplies
    \cup {Response(200, Empty, h, Body(b, Empty)) :
             h \in HeaderValues, b \in {"json", "readerr"}}

\* Replies to a value write: the service sets Location on a 201.
PutReplies ==
    PlainReplies
    \cup {Response(201, h, Empty, Body("json", Empty)) : h \in HeaderValues}

\* Replies to the list operations: the body may carry a next link.
ListReplies ==
    PlainReplies
    \cup {Response(c, Empty, Empty, Body("json", n)) :
             c \in StatusCodes, n \in NextLinks}

\* -------------------------------------------------------------- client.go

\* NewClient(authToken)
client == [authToken |-> "token"]

NoHeaders == [IfMatch |-> <<>>, IfNoneMatch |-> <<>>]

\* Outcome of a call: the error value it returned, or the panic it ended in.
Outcome(kind, status, message, locator) ==
    [kind |-> kind, Status |-> status, Message |-> message, Locator |-> locator]

Succeeded == Outcome("Succeeded", "", "", "")

TransportFailed == Outcome("TransportFailed", "", "", "")

Panic == Outcome("Panic", "", "", "")

EncodeError == Outcome("EncodeError", "", "", "")

BodyReadError == Outcome("BodyReadError", "", "", "")

DecodeError == Outcome("DecodeError", "", "", "")

\* newError without the assignment of resp.Status.
newError_noStatus(resp) ==
    Outcome("Failed", "",
            IF resp.body.kind = "json" THEN resp.body.message ELSE "",
            IF resp.body.kind = "json" THEN resp.body.locator ELSE "")

\* newError(resp): decodes the body into an OrchestrateError, ignoring the
\* decoder's error, then sets Status from the response.
newError(resp) ==
    Outcome("Failed", StatusLine(resp.code),
            IF resp.body.kind = "json" THEN resp.body.message ELSE "",
            IF resp.body.kind = "json" THEN resp.body.locator ELSE "")

\* Client.doRequest: the request handed to httpClient.Do.  The callers pass a
\* headers map between trailingPath and body; doRequest as defined in
\* client.go has no such parameter and puts on the request only the basic
\* authorization and, for PUT, the content type.  http.NewRequest fails only
\* on a URL that does not parse, which none of the inputs here produces.
doRequest(method, trailingPath, headers, body) ==
    [method |-> method,
     url |-> rootUri \o trailingPath,
     header |->
        [Authorization |->
            <<[scheme |-> "Basic", user |-> client.authToken, password |-> ""]>>,
         ContentType |->
            IF method = "PUT" THEN <<"application/json">> ELSE <<>>,
         IfMatch |-> <<>>,
         IfNoneMatch |-> <<>>],
     body |-> body]

\* ------------------------------------------------------- key/value calls

StatusOK == 200

StatusCreated == 201

StatusNoContent == 204

\* The index taken in strings.SplitAfter(header, "/")[5].
RefIndex == 5

\* The offset of the slice results.Next[4:].
NextPrefixLen == 4

ZeroPath == [Collection |-> Empty, Key |-> Empty, Ref |-> Empty]

\* A returned value: nil, *Path, *KVResult, *KVResults, *EventResults or
\* *GraphResults.  RawValue names the body the bytes came from.
Result(kind, p, next, raw) ==
    [kind |-> kind, Path |-> p, Next |-> next, RawValue |-> raw]

NilResult == Result("nil", ZeroPath, Empty, "none")

\* What one call did: the requests it handed to the transport, the headers
\* map it built for doRequest, the reply it consumed, how it ended and what
\* it returned.
Ret(sent, headers, reply, outcome, result) ==
    [sent |-> sent, headers |-> headers, reply |-> reply, outcome |-> outcome,
     result |-> result]

\* Path.trailingGetURI
trailingGetURI(p) ==
    IF p.Ref # Empty
    THEN p.Collection \o Slash \o p.Key \o S_refs \o p.Ref
    ELSE p.Collection \o Slash \o p.Key

\* trailingPutURI that appends the ref as trailingGetURI does.
trailingPutURI_withRef(p) == trailingGetURI(p)

\* Path.trailingPutURI

trailingPutURI(p) == p.Collection \o Slash \o p.Key

\* Client.GetPath on the Path p points to: ret is the call, path is the
\* value of *p when the call ends.
GetPathCall(p, reply) ==
    LET req == doRequest("GET", trailingGetURI(p), NoHeaders, "nil")
        pieces == SplitAfter(reply.contentLocation, "/")
        q == [p EXCEPT !.Ref = pieces[RefIndex + 1]]
    IN  IF reply.got = "error"
        THEN [ret |-> Ret(<<req>>, NoHeaders, reply, TransportFailed, NilResult),
              path |-> p]
        ELSE IF reply.code # StatusOK
        THEN [ret |-> Ret(<<req>>, NoHeaders, reply, newError(reply), NilResult),
              path |-> p]
        ELSE IF reply.body.kind = "readerr"
        THEN [ret |-> Ret(<<req>>, NoHeaders, reply, BodyReadError, NilResult),
              path |-> p]
        ELSE IF p.Ref = Empty
        THEN IF RefIndex >= Len(pieces)
             THEN [ret |-> Ret(<<req>>, NoHeaders, reply, Panic, NilResult),
                   path |-> p]
             ELSE [ret |-> Ret(<<req>>, NoHeaders, reply, Succeeded,
                               Result("KVResult", q, Empty, reply.body.kind)),
                   path |-> q]
        ELSE [ret |-> Ret(<<req>>, NoHeaders, reply, Succeeded,
                          Result("KVResult", p, Empty, reply.body.kind)),
              path |-> p]

\* Client.doPut
doPut(p, headers, value, reply) ==
    LET req == doRequest("PUT", trailingPutURI(p), headers, value)
        pieces == SplitAfter(reply.location, "/")
    IN  IF reply.got = "error"
        THEN Ret(<<req>>, headers, reply, TransportFailed, NilResult)
        ELSE IF reply.code # StatusCreated
        THEN Ret(<<req>>, headers, reply, newError(reply), NilResult)
        ELSE IF RefIndex >= Len(pieces)
        THEN Ret(<<req>>, headers, reply, Panic, NilResult)
        ELSE Ret(<<req>>, headers, reply, Succeeded,
                 Result("Path",
                        [Collection |-> p.Collection, Key |-> p.Key,
                         Ref |-> pieces[RefIndex + 1]],
                        Empty, "none"))

\* The return of a wrapper whose json.Encoder.Encode failed: no request.
EncodeFailed == Ret(<<>>, NoHeaders, NoExchange, EncodeError, NilResult)

\* The headers map of PutIfUnmodifiedRaw and DeleteIfUnmodified.
IfMatchHeaders(p) == [IfMatch |-> <<Quote \o p.Ref \o Quote>>, IfNoneMatch |-> <<>>]

\* The headers map of PutIfAbsentRaw.
IfNoneMatchHeaders == [IfMatch |-> <<>>, IfNoneMatch |-> <<Quote \o <<"*">> \o Quote>>]

\* Client.doDelete
doDelete(trailingUri, headers, reply) ==
    LET req == doRequest("DELETE", trailingUri, headers, "nil")
    IN  IF reply.got = "error"
        THEN Ret(<<req>>, headers, reply, TransportFailed, NilResult)
        ELSE IF reply.code # StatusNoContent
        THEN Ret(<<req>>, headers, reply, newError(reply), NilResult)
        ELSE Ret(<<req>>, headers, reply, Succeeded, NilResult)

\* Client.doList: on a decoding error the partly filled *KVResults is
\* returned with the error.
doList(trailingUri, reply) ==
    LET req == doRequest("GET", trailingUri, NoHeaders, "nil")
    IN  IF reply.got = "error"
        THEN Ret(<<req>>, NoHeaders, reply, TransportFailed, NilResult)
        ELSE IF reply.code # StatusOK
        THEN Ret(<<req>>, NoHeaders, reply, newError(reply), NilResult)
        ELSE IF reply.body.kind # "json"
        THEN Ret(<<req>>, NoHeaders, reply, DecodeError,
                 Result("KVResults", ZeroPath, Empty, reply.body.kind))
        ELSE Ret(<<req>>, NoHeaders, reply, Succeeded,
                 Result("KVResults", ZeroPath, reply.body.next, reply.body.kind))

\* KVResults.HasNext
HasNext(r) == r.Next # Empty

\* Client.ListGetNext: results.Next[4:] panics when Next is shorter than 4.
ListGetNextCall(r, reply) ==
    IF Len(r.Next) < NextPrefixLen
    THEN Ret(<<>>, NoHeaders, NoExchange, Panic, NilResult)
    ELSE doList(SubSeq(r.Next, NextPrefixLen + 1, Len(r.Next)), reply)

\* ------------------------------------------------------ events and graph

\* Client.doGetEvents
doGetEvents(trailingUri, reply) ==
    LET req == doRequest("GET", trailingUri, NoHeaders, "nil")
    IN  IF reply.got = "error"
        THEN Ret(<<req>>, NoHeaders, reply, TransportFailed, NilResult)
        ELSE IF reply.code # StatusOK
        THEN Ret(<<req>>, NoHeaders, reply, newError(reply), NilResult)
        ELSE IF reply.body.kind # "json"
        THEN Ret(<<req>>, NoHeaders, reply, DecodeError, NilResult)
        ELSE Ret(<<req>>, NoHeaders, reply, Succeeded,
                 Result("EventResults", ZeroPath, Empty, reply.body.kind))

\* Client.doPutEvent
doPutEvent(trailingUri, value, reply) ==
    LET req == doRequest("PUT", trailingUri, NoHeaders, value)
    IN  IF reply.got = "error"
        THEN Ret(<<req>>, NoHeaders, reply, TransportFailed, NilResult)
        ELSE IF reply.code # StatusNoContent
        THEN Ret(<<req>>, NoHeaders, reply, newError(reply), NilResult)
        ELSE Ret(<<req>>, NoHeaders, reply, Succeeded, NilResult)

\* Client.GetRelations
GetRelationsCall(collection, key, hops, reply) ==
    LET relationsPath == Join(hops, Slash)
        trailingUri == collection \o Slash \o key \o S_relations \o relationsPath
        req == doRequest("GET", trailingUri, NoHeaders, "nil")
    IN  IF reply.got = "error"
        THEN Ret(<<req>>, NoHeaders, reply, TransportFailed, NilResult)
        ELSE IF reply.code # StatusOK
        THEN Ret(<<req>>, NoHeaders, reply, newError(reply), NilResult)
        ELSE IF reply.body.kind # "json"
        THEN Ret(<<req>>, NoHeaders, reply, DecodeError, NilResult)
        ELSE Ret(<<req>>, NoHeaders, reply, Succeeded,
                 Result("GraphResults", ZeroPath, Empty, reply.body.kind))

\* Client.PutRelation
PutRelationCall(sourceCollection, sourceKey, kind, sinkCollection, sinkKey, reply) ==
    LET trailingUri ==
            sourceCollection \o Slash \o sourceKey \o S_relation \o kind
            \o Slash \o sinkCollection \o Slash \o sinkKey
        req == doRequest("PUT", trailingUri, NoHeaders, "nil")
    IN  IF reply.got = "error"
        THEN Ret(<<req>>, NoHeaders, reply, TransportFailed, NilResult)
        ELSE IF reply.code # StatusNoContent
        THEN Ret(<<req>>, NoHeaders, reply, newError(reply), NilResult)
        ELSE Ret(<<req>>, NoHeaders, reply, Succeeded, NilResult)

\* ------------------------------------------------------------------ state

\* path     the Path the caller holds and passes by pointer
\* results  the *KVResults the caller holds from its last successful list
\* last     the call that has just ended and whose return the caller has not
\*          yet taken: its name, the Path it was given, and its Ret
\* fetched  history: the call before was a GetPath on path that found Ref
\*          empty and returned a KVResult
NoCall ==
    [op |-> "none", arg |-> ZeroPath, sent |-> <<>>, headers |-> NoHeaders,
     reply |-> NoExchange, outcome |-> Outcome("none", "", "", ""),
     result |-> NilResult]

Init ==
    /\ path \in Paths
    /\ results = NilResult
    /\ last = NoCall
    /\ fetched = FALSE

\* Calls are synchronous: one starts when the caller has taken the return
\* of the one before, and is recorded in last when it ends.
Called(op, arg, r) ==
    /\ last.op = "none"
    /\ UNCHANGED fetched
    /\ last' = [op |-> op, arg |-> arg, sent |-> r.sent, headers |-> r.headers,
                reply |-> r.reply, outcome |-> r.outcome, result |-> r.result]

Addr(collection, key) == [Collection |-> collection, Key |-> key, Ref |-> Empty]

\* The caller takes the return of the call: it keeps the page of a list that
\* returned no error.
Return ==
    /\ last.op # "none"
    /\ last' = NoCall
    /\ results' = IF last.result.kind = "KVResults" /\ last.outcome.kind = "Succeeded"
                  THEN last.result ELSE results
    /\ fetched' = (/\ last.op = "GetPath"
                   /\ last.outcome.kind = "Succeeded"
                   /\ last.arg.Ref = Empty)
    /\ UNCHANGED path

\* ---------------------------------------------------------------- actions

Get ==
    \E collection \in Collections, key \in Keys, reply \in GetReplies :
        /\ Called("Get", Addr(collection, key),
                  GetPathCall(Addr(collection, key), reply).ret)
        /\ UNCHANGED <<path, results>>

GetPath ==
    \E reply \in GetReplies :
        LET r == GetPathCall(path, reply) IN
        /\ Called("GetPath", path, r.ret)
        /\ path' = r.path
        /\ UNCHANGED results

Put ==
    \E collection \in Collections, key \in Keys, value \in Values,
       reply \in PutReplies :
        /\ Called("Put", Addr(collection, key),
                  IF value = "unencodable" THEN EncodeFailed
                  ELSE doPut(Addr(collection, key), NoHeaders, value, reply))
        /\ UNCHANGED <<path, results>>

PutRaw ==
    \E collection \in Collections, key \in Keys, reply \in PutReplies :
        /\ Called("PutRaw", Addr(collection, key),
                  doPut(Addr(collection, key), NoHeaders, "value", reply))
        /\ UNCHANGED <<path, results>>

PutIfUnmodified ==
    \E value \in Values, reply \in PutReplies :
        /\ Called("PutIfUnmodified", path,
                  IF value = "unencodable" THEN EncodeFailed
                  ELSE doPut(path, IfMatchHeaders(path), value, reply))
        /\ UNCHANGED <<path, results>>

PutIfUnmodifiedRaw ==
    \E reply \in PutReplies :
        /\ Called("PutIfUnmodifiedRaw", path,
                  doPut(path, IfMatchHeaders(path), "value", reply))
        /\ UNCHANGED <<path, results>>

PutIfAbsent ==
    \E collection \in Collections, key \in Keys, value \in Values,
       reply \in PutReplies :
        /\ Called("PutIfAbsent", Addr(collection, key),
                  IF value = "unencodable" THEN EncodeFailed
                  ELSE doPut(Addr(collection, key), IfNoneMatchHeaders, value, reply))
        /\ UNCHANGED <<path, results>>

PutIfAbsentRaw ==
    \E collection \in Collections, key \in Keys, reply \in PutReplies :
        /\ Called("PutIfAbsentRaw", Addr(collection, key),
                  doPut(Addr(collection, key), IfNoneMatchHeaders, "value", reply))
        /\ UNCHANGED <<path, results>>

Delete ==
    \E collection \in Collections, key \in Keys, reply \in PlainReplies :
        /\ Called("Delete", Addr(collection, key),
                  doDelete(collection \o Slash \o key, NoHeaders, reply))
        /\ UNCHANGED <<path, results>>

DeleteIfUnmodified ==
    \E reply \in PlainReplies :
        /\ Called("DeleteIfUnmodified", path,
                  doDelete(trailingPutURI(path), IfMatchHeaders(path), reply))
        /\ UNCHANGED <<path, results>>

Purge ==
    \E collection \in Collections, key \in Keys, reply \in PlainReplies :
        /\ Called("Purge", Addr(collection, key),
                  doDelete(collection \o Slash \o key \o Q_purge, NoHeaders, reply))
        /\ UNCHANGED <<path, results>>

DeleteCollection ==
    \E collection \in Collections, reply \in PlainReplies :
        /\ Called("DeleteCollection", Addr(collection, Empty),
                  doDelete(collection \o Q_force, NoHeaders, reply))
        /\ UNCHANGED <<path, results>>

List ==
    \E collection \in Collections, limit \in Limits, reply \in ListReplies :
        /\ Called("List", Addr(collection, Empty),
                  doList(collection \o <<"?">>
                         \o Encode(<<<<K_limit, FormatInt(limit)>>>>), reply))
        /\ UNCHANGED <<path, results>>

ListAfter ==
    \E collection \in Collections, after \in AfterKeys, limit \in Limits,
       reply \in ListReplies :
        /\ Called("ListAfter", Addr(collection, Empty),
                  doList(collection \o <<"?">>
                         \o Encode(<<<<K_afterKey, after>>,
                                     <<K_limit, FormatInt(limit)>>>>), reply))
        /\ UNCHANGED <<path, results>>

ListStart ==
    \E collection \in Collections, start \in AfterKeys, limit \in Limits,
       reply \in ListReplies :
        /\ Called("ListStart", Addr(collection, Empty),
                  doList(collection \o <<"?">>
                         \o Encode(<<<<K_limit, FormatInt(limit)>>,
                                     <<K_startKey, start>>>>), reply))
        /\ UNCHANGED <<path, results>>

ListGetNext ==
    \E reply \in ListReplies :
        /\ results.kind = "KVResults"
        /\ Called("ListGetNext", ZeroPath, ListGetNextCall(results, reply))
        /\ UNCHANGED <<path, results>>

GetEvents ==
    \E collection \in Collections, key \in EventKeys, kind \in Kinds,
       reply \in PlainReplies :
        /\ Called("GetEvents", Addr(collection, key),
                  doGetEvents(collection \o Slash \o key \o S_events \o kind, reply))
        /\ UNCHANGED <<path, results>>

GetEventsInRange ==
    \E collection \in Collections, key \in EventKeys, kind \in Kinds,
       start \in IntArgs, end \in EndArgs, reply \in PlainReplies :
        /\ Called("GetEventsInRange", Addr(collection, key),
                  doGetEvents(collection \o Slash \o key \o S_events \o kind
                              \o <<"?">>
                              \o Encode(<<<<K_end, FormatInt(end)>>,
                                          <<K_start, FormatInt(start)>>>>),
                              reply))
        /\ UNCHANGED <<path, results>>

PutEvent ==
    \E collection \in Collections, key \in EventKeys, kind \in Kinds,
       value \in Values, reply \in PlainReplies :
        /\ Called("PutEvent", Addr(collection, key),
                  IF value = "unencodable" THEN EncodeFailed
                  ELSE doPutEvent(collection \o Slash \o key \o S_events \o kind,
                                  value, reply))
        /\ UNCHANGED <<path, results>>

PutEventRaw ==
    \E collection \in Collections, key \in EventKeys, kind \in Kinds,
       reply \in PlainReplies :
        /\ Called("PutEventRaw", Addr(collection, key),
                  doPutEvent(collection \o Slash \o key \o S_events \o kind,
                             "value", reply))
        /\ UNCHANGED <<path, results>>

PutEventWithTime ==
    \E collection \in Collections, key \in EventKeys, kind \in Kinds,
       time \in IntArgs, value \in Values, reply \in PlainReplies :
        /\ Called("PutEventWithTime", Addr(collection, key),
                  IF value = "unencodable" THEN EncodeFailed
                  ELSE doPutEvent(collection \o Slash \o key \o S_events \o kind
                                  \o <<"?">>
                                  \o Encode(<<<<K_timestamp, FormatInt(time)>>>>),
                                  value, reply))
        /\ UNCHANGED <<path, results>>

PutEventWithTimeRaw ==
    \E collection \in Collections, key \in EventKeys, kind \in Kinds,
       time \in IntArgs, reply \in PlainReplies :
        /\ Called("PutEventWithTimeRaw", Addr(collection, key),
                  doPutEvent(collection \o Slash \o key \o S_events \o kind
                             \o <<"?">>
                             \o Encode(<<<<K_timestamp, FormatInt(time)>>>>),
                             "value", reply))
        /\ UNCHANGED <<path, results>>

GetRelations ==
    \E collection \in Collections, key \in EventKeys, hops \in HopLists,
       reply \in PlainReplies :
        /\ Called("GetRelations", Addr(collection, key),
                  GetRelationsCall(collection, key, hops, reply))
        /\ UNCHANGED <<path, results>>

PutRelation ==
    \E sourceCollection \in Collections, sourceKey \in EventKeys, kind \in Kinds,
       reply \in PlainReplies :
        /\ Called("PutRelation", Addr(sourceCollection, sourceKey),
                  PutRelationCall(sourceCollection, sourceKey, kind,
                                  SinkCollection, SinkKey, reply))
        /\ UNCHANGED <<path, results>>

Next ==
    \/ Get
    \/ GetPath
    \/ Put
    \/ PutRaw
    \/ PutIfUnmodified
    \/ PutIfUnmodifiedRaw
    \/ PutIfAbsent
    \/ PutIfAbsentRaw
    \/ Delete
    \/ DeleteIfUnmodified
    \/ Purge
    \/ DeleteCollection
    \/ List
    \/ ListAfter
    \/ ListStart
    \/ ListGetNext
    \/ GetEvents
    \/ GetEventsInRange
    \/ PutEvent
    \/ PutEventRaw
    \/ PutEventWithTime
    \/ PutEventWithTimeRaw
    \/ GetRelations
    \/ PutRelation
    \/ Return

Spec == Init /\ [][Next]_vars

\* ------------------------------------------------------ claim vocabulary

S_marker == <<"r","e","f","s">>

\* The path segments of a header value: the pieces between the separators.
Segments(h) ==
    LET pieces == SplitAfter(h, "/")
    IN  [i \in 1..Len(pieces) |->
            IF Len(pieces[i]) > 0 /\ pieces[i][Len(pieces[i])] = "/"
            THEN SubSeq(pieces[i], 1, Len(pieces[i]) - 1)
            ELSE pieces[i]]

\* Positions of a refs segment that a non-empty segment follows.
MarkerAt(h) ==
    {i \in 1..(Len(Segments(h)) - 1) :
        Segments(h)[i] = S_marker /\ Segments(h)[i + 1] # Empty}

HasMarkerRef(h) == MarkerAt(h) # {}

\* The segment following the first such refs segment.
MarkerRef(h) ==
    Segments(h)[1 + CHOOSE i \in MarkerAt(h) : \A j \in MarkerAt(h) : i <= j]

PutOps ==
    {"Put", "PutRaw", "PutIfUnmodified", "PutIfUnmodifiedRaw", "PutIfAbsent",
     "PutIfAbsentRaw"}

IfCurrentOps == {"PutIfUnmodified", "PutIfUnmodifiedRaw", "DeleteIfUnmodified"}

ValueOps == PutOps \cup {"Get", "GetPath", "Delete", "DeleteIfUnmodified", "Purge"}

\* The success status the interface table gives each operation.
ExpectedStatus(op) ==
    IF op \in PutOps THEN 201
    ELSE IF op \in {"Delete", "DeleteIfUnmodified", "Purge", "DeleteCollection",
                    "PutRelation", "PutEvent", "PutEventRaw", "PutEventWithTime",
                    "PutEventWithTimeRaw"}
    THEN 204
    ELSE 200

\* The call in last was a write answered 201.
PutAnswered ==
    /\ last.op \in PutOps
    /\ last.reply.got = "response"
    /\ last.reply.code = 201

\* The call in last was a latest-version read answered 200 whose body was read.
LatestGetAnswered ==
    /\ last.op \in {"Get", "GetPath"}
    /\ last.arg.Ref = Empty
    /\ last.reply.got = "response"
    /\ last.reply.code = 200
    /\ last.reply.body.kind # "readerr"

ReturnedRef(h) ==
    /\ last.outcome.kind = "Succeeded"
    /\ last.result.Path.Ref = MarkerRef(h)

\* ------------------------------------------------------------------ claims

\* C1: after a put answered 201 or a latest-version get answered 200, the ref
\* reported to the caller is the segment that follows the refs segment of the
\* Location / Content-Location header, whatever the number of leading path
\* components of the header.
C1_RefFollowsMarker ==
    /\ (PutAnswered /\ HasMarkerRef(last.reply.location))
          => ReturnedRef(last.reply.location)
    /\ (LatestGetAnswered /\ HasMarkerRef(last.reply.contentLocation))
          => ReturnedRef(last.reply.contentLocation)

\* C2: when the Location / Content-Location header of a success response is
\* empty, has no refs segment, or has refs as its last segment, the call
\* returns a HeaderParsingError; it returns no ref and does not end in an
\* index out of range.
C2_MalformedHeaderIsParseError ==
    /\ (PutAnswered /\ ~HasMarkerRef(last.reply.location))
          => last.outcome.kind = "HeaderParsingError"
    /\ (LatestGetAnswered /\ ~HasMarkerRef(last.reply.contentLocation))
          => last.outcome.kind = "HeaderParsingError"

\* C3: ListGetNext on a page without continuation token fails with
\* NoMorePagesError and hands no request to the transport.
C3_NoMorePages ==
    (last.op = "ListGetNext" /\ ~HasNext(results))
        => (last.outcome.kind = "NoMorePagesError" /\ last.sent = <<>>)

\* C4: the precondition headers on the request sent follow the write
\* semantics: none for Put, PutRaw, Delete, Purge and DeleteCollection,
\* exactly If-None-Match: "*" for PutIfAbsent, exactly If-Match: "<ref>" for
\* PutIfUnmodified and DeleteIfUnmodified, and never both.
C4_PreconditionHeaders ==
    \A i \in DOMAIN last.sent :
        LET h == last.sent[i].header IN
        /\ last.op \in {"Put", "PutRaw", "Delete", "Purge", "DeleteCollection"}
              => (h.IfMatch = <<>> /\ h.IfNoneMatch = <<>>)
        /\ last.op \in {"PutIfAbsent", "PutIfAbsentRaw"}
              => (h.IfMatch = <<>> /\ h.IfNoneMatch = <<<<"\"", "*", "\"">>>>)
        /\ last.op \in IfCurrentOps
              => (h.IfMatch = <<Quote \o last.arg.Ref \o Quote>> /\ h.IfNoneMatch = <<>>)
        /\ ~(h.IfMatch # <<>> /\ h.IfNoneMatch # <<>>)

\* C5: an update-only-if-current write or delete given an address with an
\* empty ref fails with PreconditionConstructionError, and no request with
\* If-Match: "" is sent.
C5_EmptyRefRejected ==
    (last.op \in IfCurrentOps /\ last.arg.Ref = Empty /\ last.outcome.kind # "EncodeError")
        => /\ last.outcome.kind = "PreconditionConstructionError"
           /\ \A i \in DOMAIN last.sent :
                 last.sent[i].header.IfMatch # <<Quote \o Quote>>

\* C6: a response whose status is not the operation's success status yields
\* an error carrying the response's status line and no result, whether or
\* not the body decodes.
C6_NonSuccessIsServiceError ==
    (last.op # "none" /\ last.reply.got = "response"
     /\ last.reply.code # ExpectedStatus(last.op))
        => /\ last.outcome.kind = "Failed"
           /\ last.outcome.Status = StatusLine(last.reply.code)
           /\ last.outcome.Status # ""
           /\ last.result = NilResult

\* C6 witness: PutIfAbsent answered with the conflict status and a body that
\* is no JSON has returned an error.
C6_Witness ==
    /\ last.op = "PutIfAbsent"
    /\ last.reply.got = "response"
    /\ last.reply.code = 412
    /\ last.reply.body.kind = "garbage"
    /\ last.outcome.kind = "Failed"

\* C7: for a non-empty collection and key, a read requests collection/key
\* when the ref is empty and collection/key/refs/<ref> otherwise, and every
\* put and DeleteIfUnmodified requests collection/key whatever the ref.
C7_Paths ==
    \A i \in DOMAIN last.sent :
        LET a == last.arg
            live == rootUri \o a.Collection \o <<"/">> \o a.Key
        IN  (a.Collection # Empty /\ a.Key # Empty) =>
               /\ (last.op \in {"Get", "GetPath"} /\ a.Ref = Empty)
                     => last.sent[i].url = live
               /\ (last.op \in {"Get", "GetPath"} /\ a.Ref # Empty)
                     => last.sent[i].url = live \o <<"/","r","e","f","s","/">> \o a.Ref
               /\ last.op \in PutOps \cup {"DeleteIfUnmodified"}
                     => last.sent[i].url = live

\* C7 witness: a PutIfUnmodifiedRaw on an address with a ref has sent its
\* request.
C7_Witness ==
    /\ last.op = "PutIfUnmodifiedRaw"
    /\ last.arg.Collection # Empty
    /\ last.arg.Key # Empty
    /\ last.arg.Ref # Empty
    /\ Len(last.sent) = 1

\* C8: a value operation given an empty collection or an empty key fails
\* with InvalidAddressError before any request is sent.
C8_EmptyAddressRejected ==
    (/\ last.op \in ValueOps
     /\ (last.arg.Collection = Empty \/ last.arg.Key = Empty)
     /\ last.outcome.kind # "EncodeError")
        => (last.outcome.kind = "InvalidAddressError" /\ last.sent = <<>>)

\* C9: every call hands exactly one request to the transport and ends in
\* one of Succeeded, Failed (a service error) or TransportFailed.
C9_OneExchangeThreeOutcomes ==
    last.op # "none"
        => /\ Len(last.sent) = 1
           /\ last.outcome.kind \in {"Succeeded", "Failed", "TransportFailed"}

\* C10: GetPath changes the caller's Path only when its Ref was empty and
\* the response was a 200 whose body was read, and then sets Ref to the Ref
\* of the returned KVResult; a GetPath that follows such a success on the
\* same Path requests collection/key/refs/<ref>, not collection/key.
C10_Frame ==
    /\ path' # path =>
          /\ last'.op = "GetPath"
          /\ path.Ref = Empty
          /\ last'.reply.got = "response"
          /\ last'.reply.code = 200
          /\ last'.reply.body.kind # "readerr"
          /\ path' = [path EXCEPT !.Ref = last'.result.Path.Ref]
    /\ (last'.op = "GetPath" /\ last'.outcome.kind = "Succeeded")
          => path'.Ref = last'.result.Path.Ref

C10_SecondGet ==
    (last.op = "GetPath" /\ fetched /\ Len(last.sent) = 1)
        => /\ last.sent[1].url =
                 rootUri \o last.arg.Collection \o <<"/">> \o last.arg.Key
                 \o <<"/","r","e","f","s","/">> \o last.arg.Ref
           /\ last.sent[1].url #
                 rootUri \o last.arg.Collection \o <<"/">> \o last.arg.Key

\* C10, both parts: the frame of every step and the request of the second
\* GetPath.
C10_GetPathSetsRef == [][C10_Frame]_vars /\ []C10_SecondGet

====
